---- MODULE Spec2Model ----
(***************************************************************************)
(* Model of the sunfyre C front end: the hand-written tokenizer            *)
(* (lexer_tokenize_text and its helpers) and the expression AST node       *)
(* factories of cci/ast/expr.hpp.                                          *)
(*                                                                         *)
(* A source buffer is a sequence of one-character strings.  Pointers into  *)
(* the buffer are 1-based positions; the buffer's end() is Len(text) + 1.  *)
(* A token's span is the half-open range [begin, end).                     *)
(***************************************************************************)
EXTENDS Integers, Sequences, FiniteSets, TLC

VARIABLES text, it, tokens, pc, prev, arena, astpc

vars == <<text, it, tokens, pc, prev, arena, astpc>>
lexvars == <<text, it, tokens, pc, prev>>
astvars == <<arena, astpc>>

\* ---------------------------------------------------------------- bounds
MaxLen == 4
MaxOverrun == 1
MaxNodes == 3

\* ---------------------------------------------------------------- tables
TOKEN_SYMBOLS ==
  <<
    [type |-> "Increment", text |-> <<"+", "+">>],
    [type |-> "Decrement", text |-> <<"-", "-">>],
    [type |-> "RightArrow", text |-> <<"-", ">">>],
    [type |-> "Assign", text |-> <<"=">>],
    [type |-> "Plus", text |-> <<"+">>],
    [type |-> "Minus", text |-> <<"-">>],
    [type |-> "Times", text |-> <<"*">>],
    [type |-> "Divide", text |-> <<"/">>],
    [type |-> "Percent", text |-> <<"%">>],
    [type |-> "PlusAssign", text |-> <<"+", "=">>],
    [type |-> "MinusAssign", text |-> <<"-", "=">>],
    [type |-> "TimesAssign", text |-> <<"*", "=">>],
    [type |-> "DivideAssign", text |-> <<"/", "=">>],
    [type |-> "ModuloAssign", text |-> <<"%", "=">>],
    [type |-> "GreaterThan", text |-> <<">">>],
    [type |-> "LessThan", text |-> <<"<">>],
    [type |-> "GreaterEqual", text |-> <<">", "=">>],
    [type |-> "LessEqual", text |-> <<"<", "=">>],
    [type |-> "EqualsTo", text |-> <<"=", "=">>],
    [type |-> "NotEqualTo", text |-> <<"!", "=">>],
    [type |-> "LogicalNot", text |-> <<"!">>],
    [type |-> "LogicalAnd", text |-> <<"&", "&">>],
    [type |-> "LogicalOr", text |-> <<"|", "|">>],
    [type |-> "BitwiseNot", text |-> <<"~">>],
    [type |-> "BitwiseAnd", text |-> <<"&">>],
    [type |-> "BitwiseOr", text |-> <<"|">>],
    [type |-> "BitwiseXor", text |-> <<"^">>],
    [type |-> "BitwiseAndAssign", text |-> <<"&", "=">>],
    [type |-> "BitwiseOrAssign", text |-> <<"|", "=">>],
    [type |-> "BitwiseXorAssign", text |-> <<"^", "=">>],
    [type |-> "BitwiseRightShift", text |-> <<">", ">">>],
    [type |-> "BitwiseLeftShift", text |-> <<"<", "<">>],
    [type |-> "BitwiseRightShiftAssign", text |-> <<">", ">", "=">>],
    [type |-> "BitwiseLeftShiftAssign", text |-> <<"<", "<", "=">>],
    [type |-> "LeftParen", text |-> <<"(">>],
    [type |-> "RightParen", text |-> <<")">>],
    [type |-> "LeftBraces", text |-> <<"[">>],
    [type |-> "RightBraces", text |-> <<"]">>],
    [type |-> "LeftCurlyBraces", text |-> <<"{">>],
    [type |-> "RightCurlyBraces", text |-> <<"}">>],
    [type |-> "StringMark", text |-> <<"\"">>],
    [type |-> "CharMark", text |-> <<"'">>],
    [type |-> "Dot", text |-> <<".">>],
    [type |-> "Comma", text |-> <<",">>],
    [type |-> "Colon", text |-> <<":">>],
    [type |-> "Semicolon", text |-> <<";">>],
    [type |-> "QuestionMark", text |-> <<"?">>]
  >>

TOKEN_RESERVED_NAMES ==
  <<
    [type |-> "If", text |-> <<"i", "f">>],
    [type |-> "Else", text |-> <<"e", "l", "s", "e">>],
    [type |-> "For", text |-> <<"f", "o", "r">>],
    [type |-> "While", text |-> <<"w", "h", "i", "l", "e">>],
    [type |-> "Do", text |-> <<"d", "o">>],
    [type |-> "Typedef", text |-> <<"t", "y", "p", "e", "d", "e", "f">>],
    [type |-> "Break", text |-> <<"b", "r", "e", "a", "k">>],
    [type |-> "Case", text |-> <<"c", "a", "s", "e">>],
    [type |-> "Continue", text |-> <<"c", "o", "n", "t", "i", "n", "u", "e">>],
    [type |-> "Default", text |-> <<"d", "e", "f", "a", "u", "l", "t">>],
    [type |-> "Enum", text |-> <<"e", "n", "u", "m">>],
    [type |-> "Extern", text |-> <<"e", "x", "t", "e", "r", "n">>],
    [type |-> "Goto", text |-> <<"g", "o", "t", "o">>],
    [type |-> "Inline", text |-> <<"i", "n", "l", "i", "n", "e">>],
    [type |-> "Register", text |-> <<"r", "e", "g", "i", "s", "t", "e", "r">>],
    [type |-> "Restrict", text |-> <<"r", "e", "s", "t", "r", "i", "c", "t">>],
    [type |-> "Return", text |-> <<"r", "e", "t", "u", "r", "n">>],
    [type |-> "Sizeof", text |-> <<"s", "i", "z", "e", "o", "f">>],
    [type |-> "Static", text |-> <<"s", "t", "a", "t", "i", "c">>],
    [type |-> "Auto", text |-> <<"a", "u", "t", "o">>],
    [type |-> "Struct", text |-> <<"s", "t", "r", "u", "c", "t">>],
    [type |-> "Switch", text |-> <<"s", "w", "i", "t", "c", "h">>],
    [type |-> "Union", text |-> <<"u", "n", "i", "o", "n">>],
    [type |-> "CharType", text |-> <<"c", "h", "a", "r">>],
    [type |-> "ShortType", text |-> <<"s", "h", "o", "r", "t">>],
    [type |-> "IntType", text |-> <<"i", "n", "t">>],
    [type |-> "LongType", text |-> <<"l", "o", "n", "g">>],
    [type |-> "FloatType", text |-> <<"f", "l", "o", "a", "t">>],
    [type |-> "DoubleType", text |-> <<"d", "o", "u", "b", "l", "e">>],
    [type |-> "VoidType", text |-> <<"v", "o", "i", "d">>],
    [type |-> "Signed", text |-> <<"s", "i", "g", "n", "e", "d">>],
    [type |-> "Unsigned", text |-> <<"u", "n", "s", "i", "g", "n", "e", "d">>],
    [type |-> "Volatile", text |-> <<"v", "o", "l", "a", "t", "i", "l", "e">>],
    [type |-> "Const", text |-> <<"c", "o", "n", "s", "t">>]
  >>

\* ---------------------------------------------------- character classifier
is_special(c) ==
  c \in {"=", "+", "-", "*", "/", "%", ">", "<", "!", "&", "|", "~", "^",
         "(", ")", "[", "]", "{", "}", ",", ":", ";", "?"}

is_space(c) == c = " " \/ c = "\t"

is_white(c) == is_space(c) \/ is_special(c)

is_digit(c) == c \in {"0", "1", "2", "3", "4", "5", "6", "7", "8", "9"}

is_hexdigit(c) ==
  is_digit(c) \/ c \in {"A", "B", "C", "D", "E", "F"}
              \/ c \in {"a", "b", "c", "d", "e", "f"}

is_alpha(c) ==
  \/ c \in {"A", "B", "C", "D", "E", "F", "G", "H", "I", "J", "K", "L", "M",
            "N", "O", "P", "Q", "R", "S", "T", "U", "V", "W", "X", "Y", "Z"}
  \/ c \in {"a", "b", "c", "d", "e", "f", "g", "h", "i", "j", "k", "l", "m",
            "n", "o", "p", "q", "r", "s", "t", "u", "v", "w", "x", "y", "z"}
  \/ c = "_"

is_alphanum(c) == is_alpha(c) \/ is_digit(c)

is_constant(c) == is_digit(c) \/ c = "'" \/ c = "\""

is_not_white(c) == ~is_white(c)

is_char_mark(c) == c = "'"

is_string_mark(c) == c = "\""

is_dot(c) == c = "."

is_f_suffix(c) == c = "f" \/ c = "F"

\* A Predicate argument of find_if / find_next_token, named by a tag.
Holds(pred, c) ==
  CASE pred = "is_white"       -> is_white(c)
    [] pred = "is_not_white"   -> is_not_white(c)
    [] pred = "is_alphanum"    -> is_alphanum(c)
    [] pred = "is_char_mark"   -> is_char_mark(c)
    [] pred = "is_string_mark" -> is_string_mark(c)
    [] pred = "is_dot"         -> is_dot(c)
    [] pred = "is_f_suffix"    -> is_f_suffix(c)

\* ------------------------------------------------------------ the buffer
end == Len(text) + 1

\* std::find_if over [b, e): the first position whose byte satisfies P, or e.
find_if(b, e, pred) ==
  IF \E i \in b..(e - 1) : Holds(pred, text[i])
    THEN CHOOSE i \in b..(e - 1) :
           Holds(pred, text[i]) /\ \A j \in b..(i - 1) : ~Holds(pred, text[j])
    ELSE e

\* std::find_if_not over [b, e).
find_if_not(b, e, pred) ==
  IF \E i \in b..(e - 1) : ~Holds(pred, text[i])
    THEN CHOOSE i \in b..(e - 1) :
           ~Holds(pred, text[i]) /\ \A j \in b..(i - 1) : Holds(pred, text[j])
    ELSE e

\* optional<string_view>: has = FALSE is nullopt, else the view [b, e).
find_next_token(begin, e, pred) ==
  LET first == find_if(begin, e, pred)
      last  == find_if_not(first, e, pred)
  IN  IF first # e THEN [has |-> TRUE, b |-> first, e |-> last]
                   ELSE [has |-> FALSE, b |-> e, e |-> e]

find_next_token_nonwhite(begin, e) == find_next_token(begin, e, "is_not_white")

\* Mutant: the token is inserted at the front of the vector.
add_token_front(toks, type, b, e) == <<[type |-> type, begin |-> b, end |-> e]>> \o toks

\* LexerContext::add_token: tokens.emplace_back(type, begin, end).
add_token(toks, type, b, e) == Append(toks, [type |-> type, begin |-> b, end |-> e])

\* A parse function's effect: the token vector afterwards and the returned cursor.
Result(toks, ret) == [tokens |-> toks, ret |-> ret]

\* ------------------------------------------------------ quoted literals
\* The string_view built by the lambda: [first, next(last)), where last is
\* the closing quote or e when there is none.
char_literal_view(begin, e) ==
  LET first == find_if(begin, e, "is_char_mark")
      last  == find_if(first + 1, e, "is_char_mark")
  IN  [b |-> first, e |-> last + 1]

lexer_parse_char_literal(toks, begin, e) ==
  IF begin = e THEN Result(toks, e)
  ELSE LET token == char_literal_view(begin, e)
       IN  IF token.e = e
             THEN Result(toks, find_if(token.b, e, "is_white"))
           ELSE IF token.e - token.b = 2
             THEN Result(toks, token.e)
           ELSE Result(add_token(toks, "CharConstant", token.b, token.e), token.e)

string_literal_view(begin, e) ==
  LET first == find_if(begin, e, "is_string_mark")
      last  == find_if(first + 1, e, "is_string_mark")
  IN  [b |-> first, e |-> last + 1]

lexer_parse_string_literal(toks, begin, e) ==
  IF begin = e THEN Result(toks, e)
  ELSE LET token == string_literal_view(begin, e)
       IN  IF token.e = e
             THEN Result(toks, find_if(token.b, e, "is_white"))
           ELSE IF token.e - token.b = 2
             THEN Result(toks, token.e)
           ELSE Result(add_token(toks, "StringConstant", token.b, token.e), token.e)

\* ---------------------------------------------------- numeric constants
is_integer(b, e) ==
  LET has_hex_prefix == e - b > 2 /\ text[b] = "0"
                        /\ (text[b + 1] = "x" \/ text[b + 1] = "X")
      start == IF has_hex_prefix THEN b + 2 ELSE b
  IN  \A i \in start..(e - 1) :
        IF has_hex_prefix THEN is_hexdigit(text[i]) ELSE is_digit(text[i])

\* Mutant: the f/F suffix is not required to be the last byte.
is_float_any_suffix(b, e) ==
  LET dot_it      == find_if(b, e, "is_dot")
      f_suffix_it == find_if(dot_it, e, "is_f_suffix")
  IN  \A i \in b..(e - 1) :
        i = dot_it \/ i = f_suffix_it \/ is_digit(text[i])

is_float(b, e) ==
  LET dot_it      == find_if(b, e, "is_dot")
      f_suffix_it == find_if(dot_it, e, "is_f_suffix")
  IN  IF f_suffix_it # e /\ f_suffix_it + 1 # e
        THEN FALSE
        ELSE \A i \in b..(e - 1) :
               i = dot_it \/ i = f_suffix_it \/ is_digit(text[i])

lexer_parse_constant(toks, begin, e) ==
  IF begin = e THEN Result(toks, e)
  ELSE LET token == find_next_token_nonwhite(begin, e)
       IN  IF text[token.b] = "'"
             THEN lexer_parse_char_literal(toks, begin, e)
           ELSE IF text[token.b] = "\""
             THEN lexer_parse_string_literal(toks, begin, e)
           ELSE IF is_integer(token.b, token.e)
             THEN Result(add_token(toks, "IntegerConstant", token.b, token.e), token.e)
           ELSE IF is_float(token.b, token.e)
             THEN Result(add_token(toks, "FloatConstant", token.b, token.e), token.e)
           ELSE Result(toks, token.e)

\* ------------------------------------------------ identifiers, keywords
is_identifier(b, e) ==
  is_alpha(text[b]) /\ \A i \in (b + 1)..(e - 1) : is_alphanum(text[i])

\* Mutant: the table entry only has to be a prefix of the token.
token_equals_prefix(b, e, name_str) ==
  Len(name_str) <= e - b /\ SubSeq(text, b, b + Len(name_str) - 1) = name_str

\* string_view == string_view: the token's bytes equal the table entry's.
token_equals(b, e, name_str) == SubSeq(text, b, e - 1) = name_str

\* The for loop over TOKEN_RESERVED_NAMES: one add_token per matching entry,
\* in table order.
RECURSIVE add_reserved(_, _, _, _)
add_reserved(toks, k, b, e) ==
  IF k > Len(TOKEN_RESERVED_NAMES) THEN toks
  ELSE LET name == TOKEN_RESERVED_NAMES[k]
       IN  add_reserved(IF token_equals(b, e, name.text)
                          THEN add_token(toks, name.type, b, e)
                          ELSE toks,
                        k + 1, b, e)

lexer_parse_identifier(toks, begin, e) ==
  IF begin = e THEN Result(toks, e)
  ELSE LET token == find_next_token(begin, e, "is_alphanum")
       IN  IF is_identifier(token.b, token.e)
             THEN LET is_reserved ==
                        \E k \in 1..Len(TOKEN_RESERVED_NAMES) :
                          token_equals(token.b, token.e, TOKEN_RESERVED_NAMES[k].text)
                  IN  IF is_reserved
                        THEN Result(add_reserved(toks, 1, token.b, token.e), token.e)
                        ELSE Result(add_token(toks, "Identifier", token.b, token.e), token.e)
             ELSE Result(toks, token.e)

\* --------------------------------------------------------------- inputs
Alphabet == {" ", ">", "0", "1", "x", "f", ".", "'", "\"", "@"}

EnumBuffers == UNION {[1..n -> Alphabet] : n \in 0..MaxLen}

TableBuffers ==
  {TOKEN_SYMBOLS[k].text : k \in 1..Len(TOKEN_SYMBOLS)}
    \cup {TOKEN_RESERVED_NAMES[k].text : k \in 1..Len(TOKEN_RESERVED_NAMES)}

ExampleBuffers ==
  { <<"a", ">", ">", "=", "3">>,
    <<"i", "f", "f", "y">>,
    <<"i", "f", " ", "x", "_", "1", ";">>,
    <<"4", "2">>,
    <<"0", "x", "1", "F">>,
    <<"0", "X", "a", "9">>,
    <<"3", ".", "1", "4">>,
    <<"3", ".", "1", "4", "f">>,
    <<"3", ".", "1", "4", "F">>,
    <<"0", "x", "1", ".", "5">>,
    <<"1", "2", "a", "b">>,
    <<"4", "2", " ", "0", "x", "1", "F", " ", "3", ".", "1", "4", "f", " ",
      "0", "x", "1", ".", "5">>,
    <<"'", "a", "'">>,
    <<"'", "a", "b", "'">>,
    <<"'", "\\", "n", "'", " ", "x">>,
    <<"x", " ", "'", "a", "'", " ", "y">>,
    <<"\"", "h", "i", "\"", ";">>,
    <<"x", "=", "\"", "h", "i", "\"">>,
    <<"'", "a", " ", "b">>,
    <<"\"", "a", " ", "b">> }

Buffers == EnumBuffers \cup TableBuffers \cup ExampleBuffers

\* --------------------------------------------------- lexer_tokenize_text
LexInit ==
  /\ text \in Buffers
  /\ it = 1
  /\ tokens = <<>>
  /\ pc = "scan"
  /\ prev = 0

LexIdle ==
  /\ text = <<>>
  /\ it = 1
  /\ tokens = <<>>
  /\ pc = "done"
  /\ prev = 0

InBounds == pc = "scan" /\ it < end

\* while (it != end) is false: return lexer.tokens.
LoopExit ==
  /\ pc = "scan" /\ it = end
  /\ pc' = "done"
  /\ UNCHANGED <<text, it, tokens, prev, astvars>>

ParseConstant ==
  /\ InBounds /\ is_constant(text[it])
  /\ LET r == lexer_parse_constant(tokens, it, end)
     IN  tokens' = r.tokens /\ it' = r.ret
  /\ prev' = it
  /\ UNCHANGED <<text, pc, astvars>>

ParseIdentifier ==
  /\ InBounds /\ ~is_constant(text[it]) /\ is_alphanum(text[it])
  /\ LET r == lexer_parse_identifier(tokens, it, end)
     IN  tokens' = r.tokens /\ it' = r.ret
  /\ prev' = it
  /\ UNCHANGED <<text, pc, astvars>>

\* else if (auto opt_token = find_next_token(it, end); opt_token.has_value())
SkipToNextToken ==
  /\ InBounds /\ ~is_constant(text[it]) /\ ~is_alphanum(text[it])
  /\ find_next_token_nonwhite(it, end).has
  /\ it' = find_next_token_nonwhite(it, end).b
  /\ prev' = it
  /\ UNCHANGED <<text, tokens, pc, astvars>>

\* else { break; }
UnknownBreak ==
  /\ InBounds /\ ~is_constant(text[it]) /\ ~is_alphanum(text[it])
  /\ ~find_next_token_nonwhite(it, end).has
  /\ pc' = "done"
  /\ UNCHANGED <<text, it, tokens, prev, astvars>>

\* The cursor is past end(): it != end stays true and *it reads a byte that is
\* not part of the buffer.  The bytes there are arbitrary, so the iteration
\* has any result the loop body computes on some byte: an access fault, a
\* cursor that stays put, or an advance with or without a token appended.
OverrunScan ==
  /\ pc = "scan" /\ it > end
  /\ \/ /\ pc' = "fault"
        /\ UNCHANGED <<it, tokens>>
     \/ /\ it < end + 1 + MaxOverrun
        /\ \E n \in 0..1, emit \in BOOLEAN :
             /\ it' = it + n
             /\ tokens' = IF emit /\ n > 0
                            THEN add_token(tokens, "Identifier", it, it + n)
                            ELSE tokens
        /\ pc' = pc
  /\ prev' = it
  /\ UNCHANGED <<text, astvars>>

LexNext ==
  \/ LoopExit
  \/ ParseConstant
  \/ ParseIdentifier
  \/ SkipToNextToken
  \/ UnknownBreak
  \/ OverrunScan

AstIdle == arena = <<>> /\ astpc = "ok"

Init == LexInit /\ AstIdle

Next == LexNext

Spec == Init /\ [][Next]_vars

\* ===================================================== expression nodes
\* The arena is the sequence of nodes placed so far; an arena_ptr is a
\* node's index in it.  A ByteSpan is a record [start, end].
QualTypes == {"int", "int*"}

\* ty->get_as<PointerType>() != nullptr
IsPointerType(ty) == ty = "int*"

value_kind(e) == e.vk

expr_type(e) == e.ty

begin_loc(e) == e.range.start

source_span(e) == e.range

IntegerLiteral(val, ty, r) ==
  [ec |-> "IntegerLiteral", vk |-> "RValue", ty |-> ty, range |-> r, val |-> val]

CharacterConstant(val, cck, ty, r) ==
  [ec |-> "CharacterConstant", vk |-> "RValue", ty |-> ty, range |-> r,
   val |-> val, cck |-> cck]

StringLiteral(ty, str_data, sk, cbw, locs, rquote_loc) ==
  [ec |-> "StringLiteral", vk |-> "LValue", ty |-> ty,
   range |-> [start |-> locs[1], end |-> rquote_loc + 1],
   str_data |-> str_data, sk |-> sk, char_byte_width |-> cbw, tok_locs |-> locs]

\* Mutant: the value category is fixed to RValue, as in the literal nodes.
ParenExpr_rvalue(expr, lparen, rparen) ==
  [ec |-> "ParenExpr", vk |-> "RValue", ty |-> expr_type(arena[expr]),
   range |-> [start |-> lparen, end |-> rparen + 1],
   inner_expr |-> expr, lparen_loc |-> lparen, rparen_loc |-> rparen]

ParenExpr(expr, lparen, rparen) ==
  [ec |-> "ParenExpr", vk |-> value_kind(arena[expr]), ty |-> expr_type(arena[expr]),
   range |-> [start |-> lparen, end |-> rparen + 1],
   inner_expr |-> expr, lparen_loc |-> lparen, rparen_loc |-> rparen]

ArraySubscriptExpr(base, idx, vk, ty, lbracket_loc, rbracket_loc) ==
  [ec |-> "ArraySubscript", vk |-> vk, ty |-> ty,
   range |-> [start |-> begin_loc(arena[base]), end |-> rbracket_loc + 1],
   base |-> base, idx |-> idx, lbracket_loc |-> lbracket_loc]

ImplicitCastExpr(vk, ty, ck, op) ==
  [ec |-> "ImplicitCast", vk |-> vk, ty |-> ty,
   range |-> source_span(arena[op]), ck |-> ck, op |-> op]

\* Mutant: ImplicitCastExpr::classof compares against the ParenExpr tag.
classof_cast_as_paren(T, ec) ==
  CASE T = "IntegerLiteral"     -> "IntegerLiteral" = ec
    [] T = "CharacterConstant"  -> "CharacterConstant" = ec
    [] T = "StringLiteral"      -> "StringLiteral" = ec
    [] T = "ParenExpr"          -> "ParenExpr" = ec
    [] T = "ArraySubscriptExpr" -> "ArraySubscript" = ec
    [] T = "ImplicitCastExpr"   -> "ParenExpr" = ec

\* T::classof(ec) of each concrete node struct T.
classof(T, ec) ==
  CASE T = "IntegerLiteral"     -> "IntegerLiteral" = ec
    [] T = "CharacterConstant"  -> "CharacterConstant" = ec
    [] T = "StringLiteral"      -> "StringLiteral" = ec
    [] T = "ParenExpr"          -> "ParenExpr" = ec
    [] T = "ArraySubscriptExpr" -> "ArraySubscript" = ec
    [] T = "ImplicitCastExpr"   -> "ImplicitCast" = ec

\* Expr::get_as<T>() on the node at handle p: the handle itself as a view of
\* type T, or 0 for nullptr.
get_as(p, T) == IF classof(T, arena[p].ec) THEN p ELSE 0

CanCreate == astpc = "ok" /\ Len(arena) < MaxNodes

Handles == 1..Len(arena)

IntegerLiteral_create ==
  /\ CanCreate
  /\ \E ty \in QualTypes :
       arena' = Append(arena, IntegerLiteral(7, ty, [start |-> 1, end |-> 2]))
  /\ UNCHANGED <<astpc, lexvars>>

CharacterConstant_create ==
  /\ CanCreate
  /\ \E cck \in {"Ascii", "Wide"} :
       arena' = Append(arena, CharacterConstant(97, cck, "int", [start |-> 1, end |-> 4]))
  /\ UNCHANGED <<astpc, lexvars>>

StringLiteral_create ==
  /\ CanCreate
  /\ \E locs \in {<<>>, <<1>>, <<1, 6>>} :
       IF locs # <<>>
         THEN /\ arena' = Append(arena,
                    StringLiteral("int*", <<104, 105>>, "Ascii", 1, locs,
                                  locs[Len(locs)] + 3))
              /\ astpc' = astpc
         ELSE /\ astpc' = "fault"
              /\ arena' = arena
  /\ UNCHANGED lexvars

ParenExpr_create ==
  /\ CanCreate
  /\ \E inner_expr \in Handles, lparen \in {0, 2}, rparen \in {5, 8} :
       arena' = Append(arena, ParenExpr(inner_expr, lparen, rparen))
  /\ UNCHANGED <<astpc, lexvars>>

\* cci_expects(cond): the call returns when cond holds, and is an internal
\* fault that ends the compilation of the unit when it does not.
cci_expects(cond) == cond

\* Mutant: only the base expression is required to have a pointer type.
ArraySubscriptExpr_expects_base(base_expr, index_expr) ==
  cci_expects(IsPointerType(expr_type(arena[base_expr])))

\* The two precondition checks of ArraySubscriptExpr::create.
ArraySubscriptExpr_expects(base_expr, index_expr) ==
  /\ cci_expects(IsPointerType(expr_type(arena[base_expr])))
  /\ cci_expects(~IsPointerType(expr_type(arena[index_expr])))

ArraySubscriptExpr_create ==
  /\ CanCreate
  /\ \E base_expr \in Handles, index_expr \in Handles, vk \in {"LValue", "RValue"} :
       IF ArraySubscriptExpr_expects(base_expr, index_expr)
         THEN /\ arena' = Append(arena,
                    ArraySubscriptExpr(base_expr, index_expr, vk, "int", 4, 6))
              /\ astpc' = astpc
         ELSE /\ astpc' = "fault"
              /\ arena' = arena
  /\ UNCHANGED lexvars

ImplicitCastExpr_create ==
  /\ CanCreate
  /\ \E vk \in {"LValue", "RValue"}, ty \in QualTypes,
        ck \in {"LValueToRValue", "ArrayToPointerDecay", "AtomicToNonAtomic"},
        operand \in Handles :
       arena' = Append(arena, ImplicitCastExpr(vk, ty, ck, operand))
  /\ UNCHANGED <<astpc, lexvars>>

AstInit == LexIdle /\ AstIdle

AstNext ==
  \/ IntegerLiteral_create
  \/ CharacterConstant_create
  \/ StringLiteral_create
  \/ ParenExpr_create
  \/ ArraySubscriptExpr_create
  \/ ImplicitCastExpr_create

SpecAst == AstInit /\ [][AstNext]_vars

\* ================================================= expression node claims
IsParen(p) == "inner_expr" \in DOMAIN arena[p]

\* The expression reached from p by stripping every enclosing ParenExpr.
RECURSIVE Innermost(_)
Innermost(p) == IF IsParen(p) THEN Innermost(arena[p].inner_expr) ELSE p

\* C10: a node built by ParenExpr::create is tagged ParenExpr, has its inner
\* expression's value category and type and the span [lparen, rparen + 1);
\* so through any nesting depth it has those of the innermost expression.
C10_ParenExprInherits ==
  \A p \in 1..Len(arena) :
    IsParen(p) =>
      /\ arena[p].ec = "ParenExpr"
      /\ arena[p].vk = arena[arena[p].inner_expr].vk
      /\ arena[p].ty = arena[arena[p].inner_expr].ty
      /\ arena[p].range = [start |-> arena[p].lparen_loc,
                           end |-> arena[p].rparen_loc + 1]
      /\ arena[p].vk = arena[Innermost(p)].vk
      /\ arena[p].ty = arena[Innermost(p)].ty

C10_Witness ==
  \E p \in 1..Len(arena) :
    /\ IsParen(p) /\ IsParen(arena[p].inner_expr)
    /\ arena[Innermost(p)].ec = "IntegerLiteral"
    /\ arena[p].vk = "RValue"
    /\ arena[p].range = [start |-> 0, end |-> 9]

IsSubscript(p) == "base" \in DOMAIN arena[p]

\* C11: an ArraySubscript node exists only with a base of pointer type and an
\* index of non-pointer type; a factory call that ends in the internal fault
\* places no node in the arena, and after the fault no node is placed at all.
C11_SubscriptPrecondition ==
  /\ [](\A p \in 1..Len(arena) :
          (IsSubscript(p) \/ arena[p].ec = "ArraySubscript") =>
            /\ IsSubscript(p) /\ arena[p].ec = "ArraySubscript"
            /\ IsPointerType(arena[arena[p].base].ty)
            /\ ~IsPointerType(arena[arena[p].idx].ty))
  /\ [][(astpc = "fault" \/ astpc' = "fault") => arena' = arena]_vars

C11_Witness ==
  \E p \in 1..Len(arena) :
    /\ IsSubscript(p)
    /\ arena[arena[p].base].ec = "StringLiteral"
    /\ arena[arena[p].base].ty = "int*"
    /\ arena[arena[p].idx].ty = "int"

Variants == {"IntegerLiteral", "CharacterConstant", "StringLiteral",
             "ParenExpr", "ArraySubscriptExpr", "ImplicitCastExpr"}

\* The ExprClass tag the claim assigns to each variant.
TagOfVariant(T) ==
  CASE T = "ArraySubscriptExpr" -> "ArraySubscript"
    [] T = "ImplicitCastExpr"   -> "ImplicitCast"
    [] OTHER                    -> T

\* The factory that built the node at p, read off the node's payload fields.
BuiltBy(p) ==
  LET f == DOMAIN arena[p]
  IN  CASE "inner_expr" \in f -> "ParenExpr"
        [] "base" \in f       -> "ArraySubscriptExpr"
        [] "op" \in f         -> "ImplicitCastExpr"
        [] "str_data" \in f   -> "StringLiteral"
        [] "cck" \in f        -> "CharacterConstant"
        [] OTHER              -> "IntegerLiteral"

\* C12: for every node and every concrete variant T, get_as<T>() is a view of
\* the node iff the node's stored tag is T's tag, and nullptr otherwise; the
\* query of exactly one variant succeeds, that of the factory that built it.
C12_SafeDowncast ==
  \A p \in 1..Len(arena) :
    /\ \A T \in Variants :
         /\ get_as(p, T) \in {0, p}
         /\ get_as(p, T) = p <=> arena[p].ec = TagOfVariant(T)
    /\ {T \in Variants : get_as(p, T) # 0} = {BuiltBy(p)}

C12_Witness ==
  \E p \in 1..Len(arena) :
    /\ BuiltBy(p) = "ImplicitCastExpr"
    /\ BuiltBy(arena[p].op) = "ParenExpr"
    /\ get_as(p, "ImplicitCastExpr") = p
    /\ get_as(p, "ParenExpr") = 0
    /\ get_as(arena[p].op, "ParenExpr") = arena[p].op
    /\ get_as(arena[p].op, "ImplicitCastExpr") = 0

\* ======================================================= tokenizer claims
Quotes == {"'", "\""}

LiteralKind(q) == IF q = "'" THEN "CharConstant" ELSE "StringConstant"

Token(type, b, e) == [type |-> type, begin |-> b, end |-> e]

\* The first quote q strictly after position i, or end when there is none.
ClosingQuote(i, q) ==
  IF \E j \in (i + 1)..(end - 1) : text[j] = q
    THEN CHOOSE j \in (i + 1)..(end - 1) :
           text[j] = q /\ \A k \in (i + 1)..(j - 1) : text[k] # q
    ELSE end

\* The end of the maximal run starting at position i of bytes satisfying P.
RunEnd(i, pred) ==
  CHOOSE j \in (i + 1)..end :
    /\ \A k \in i..(j - 1) : Holds(pred, text[k])
    /\ j = end \/ ~Holds(pred, text[j])

\* C1: lexer_tokenize_text terminates on every buffer: an iteration of the
\* scanning loop that does not leave the loop moves the cursor forward.
C1_EveryIterationAdvances == (pc = "scan" /\ prev # 0) => it > prev

\* C2: every emitted token has a non-empty span that lies inside the source
\* buffer, also when it comes from a literal without a closing quote.
C2_SpansInsideBuffer ==
  \A k \in 1..Len(tokens) :
    /\ tokens[k].begin < tokens[k].end
    /\ 1 <= tokens[k].begin
    /\ tokens[k].end <= end

\* C3: a terminated, non-empty quoted literal under the cursor yields exactly
\* one token of its literal kind spanning both quotes, wherever it sits in the
\* buffer, and the cursor moves past the closing quote.
C3_TerminatedLiteralOneToken ==
  [][ \A q \in Quotes :
        (InBounds /\ text[it] = q /\ ClosingQuote(it, q) < end
           /\ ClosingQuote(it, q) > it + 1)
        => /\ tokens' = Append(tokens,
                               Token(LiteralKind(q), it, ClosingQuote(it, q) + 1))
           /\ it' = ClosingQuote(it, q) + 1 ]_vars

\* C4: a literal with an opening quote and no closing quote emits no token,
\* moves the cursor to the next whitespace/punctuation byte at or after the
\* opening quote (or to the end of the buffer), and scanning continues.
C4_UnterminatedLiteralRecovers ==
  [][ \A q \in Quotes :
        (InBounds /\ text[it] = q /\ ClosingQuote(it, q) = end)
        => /\ tokens' = tokens
           /\ it' = find_if(it, end, "is_white")
           /\ pc' = "scan" ]_vars

\* C5: operator runs are tokenized by longest match: ">>=" is one
\* BitwiseRightShiftAssign token and "a>>=3" is Identifier,
\* BitwiseRightShiftAssign, IntegerConstant.
C5_LongestMatch ==
  /\ (pc = "done" /\ text = <<">", ">", "=">>)
       => tokens = <<Token("BitwiseRightShiftAssign", 1, 4)>>
  /\ (pc = "done" /\ text = <<"a", ">", ">", "=", "3">>)
       => tokens = <<Token("Identifier", 1, 2),
                     Token("BitwiseRightShiftAssign", 2, 5),
                     Token("IntegerConstant", 5, 6)>>

\* C6: tokenizing the text of any TOKEN_SYMBOLS or TOKEN_RESERVED_NAMES entry
\* alone returns exactly one token, of the entry's kind, spanning the buffer.
C6_ExactTextRoundTrip ==
  \A tbl \in {TOKEN_SYMBOLS, TOKEN_RESERVED_NAMES} :
    \A k \in 1..Len(tbl) :
      (pc = "done" /\ text = tbl[k].text)
        => tokens = <<Token(tbl[k].type, 1, end)>>

\* The kind the reserved-word table gives to a run of bytes.
KindOfName(run) ==
  IF \E k \in 1..Len(TOKEN_RESERVED_NAMES) : TOKEN_RESERVED_NAMES[k].text = run
    THEN (CHOOSE n \in {TOKEN_RESERVED_NAMES[k] : k \in 1..Len(TOKEN_RESERVED_NAMES)} :
            n.text = run).type
    ELSE "Identifier"

\* C7: with the cursor at a letter or underscore, one token is emitted that
\* spans the maximal run of letters, digits and underscores; its kind is the
\* reserved word's kind iff the run equals a reserved word, else Identifier.
C7_KeywordIdentifierBoundary ==
  [][ (InBounds /\ is_alpha(text[it]))
      => LET e == RunEnd(it, "is_alphanum")
         IN  /\ tokens' = Append(tokens,
                                 Token(KindOfName(SubSeq(text, it, e - 1)), it, e))
             /\ it' = e ]_vars

C7_Witness ==
  /\ text = <<"i", "f", " ", "x", "_", "1", ";">>
  /\ tokens = <<Token("If", 1, 3), Token("Identifier", 4, 7)>>

AllDecimal(run) == \A i \in 1..Len(run) : is_digit(run[i])

HexPrefixed(run) ==
  /\ Len(run) >= 2 /\ run[1] = "0" /\ run[2] \in {"x", "X"}
  /\ \A i \in 3..Len(run) : is_hexdigit(run[i])

FloatShape(run) ==
  \E d \in 1..Len(run) :
    /\ run[d] = "."
    /\ \A i \in (1..Len(run)) \ {d} :
         is_digit(run[i]) \/ (i = Len(run) /\ run[i] \in {"f", "F"})

\* Whether a run counts as an integer: as the claim words it, or with at least
\* one hex digit required after the 0x/0X prefix.
IsInteger(asClaimed, run) ==
  \/ AllDecimal(run)
  \/ HexPrefixed(run) /\ (asClaimed \/ Len(run) >= 3)

\* The three outcomes of the numeric rule for the run under the cursor.
NumericOutcome(asClaimed) ==
      (InBounds /\ is_digit(text[it]))
      => LET e   == RunEnd(it, "is_not_white")
             run == SubSeq(text, it, e - 1)
         IN  /\ it' = e
             /\ tokens' = IF IsInteger(asClaimed, run)
                            THEN Append(tokens, Token("IntegerConstant", it, e))
                          ELSE IF FloatShape(run)
                            THEN Append(tokens, Token("FloatConstant", it, e))
                          ELSE tokens


\* C8 as stated: the run is an IntegerConstant if it is all decimal digits or
\* 0x/0X followed only by hex digits, else a FloatConstant if it has the float
\* shape, else no token; the cursor ends at the end of the run.
C8_NumericAsClaimed == [][NumericOutcome(TRUE)]_vars

\* C8: as above, where a hex-prefixed run is an integer only if at least one
\* hex digit follows the 0x/0X prefix.
C8_NumericClassification == [][NumericOutcome(FALSE)]_vars

C8_Witness ==
  /\ Len(text) = 19 /\ it = end
  /\ tokens = <<Token("IntegerConstant", 1, 3), Token("IntegerConstant", 4, 8),
                Token("FloatConstant", 9, 14)>>

TokensInOrder(toks) ==
  \A k \in 2..Len(toks) :
    /\ toks[k].begin >= toks[k - 1].end
    /\ toks[k].begin > toks[k - 1].begin

\* C9: tokens are appended in source order: each token starts at or after the
\* end of the token appended before it, earlier tokens are kept, and the
\* cursor never moves backwards.
C9_SourceOrder ==
  [][ /\ it' >= it
      /\ Len(tokens') >= Len(tokens)
      /\ SubSeq(tokens', 1, Len(tokens)) = tokens
      /\ TokensInOrder(tokens') ]_vars

C9_Witness ==
  /\ text = <<"x", " ", "'", "a", "'", " ", "y">>
  /\ pc = "done"
  /\ tokens = <<Token("Identifier", 1, 2), Token("CharConstant", 3, 6),
                Token("Identifier", 7, 8)>>

\* C13: in every reachable state the cursor lies between the start and the
\* end of the buffer, so the loop test and the dispatch read no byte past the
\* end; each parse function returns a position no greater than its end.
C13_CursorInBounds == 1 <= it /\ it <= end

====
